---- MODULE Spec2Model ----
(***************************************************************************)
(* knx2mqtt: the connection supervisor (Mqtt::run), the event multiplexer  *)
(* (Mqtt::run_loop) and the two translation functions (Mqtt::handle_knx,   *)
(* Mqtt::handle_mqtt) of src/src/main.rs.                                  *)
(*                                                                         *)
(* Strings are sequences of characters.  Option::None is the string        *)
(* "none".  A Result is a record with a tag: "Some" / "None" for Ok(Some)  *)
(* and Ok(None), "Err" for Err(_), and "Panic" for a call that unwinds     *)
(* instead of returning.                                                   *)
(***************************************************************************)
EXTENDS Integers, Sequences, FiniteSets, TLC

(* ---- bounds ---- *)
MaxTopicLen == 3
MaxFails == 8
MaxSent == 2
InitialRequestDelay == 2

(* ---- program constants ---- *)
BackoffMin == 1
BackoffMax == 60

(* ---- configuration (the CLI static) ---- *)
Chars == {"p", "/", "1", "2"}
mqtt_prefix == <<"p">>

(* the group addresses GroupAddress::from_str accepts, in string form *)
GroupStrings == {<<"1">>, <<"2">>}

(* the project file: two groups in enumeration order; only the first has  *)
(* a datapoint type, and it has no unit                                    *)
ProjectGroups == <<"1", "2">>

VARIABLES
    pc,              \* position of run(): connect, sleep, subscribe, session (in select!), iterated, terminate, exit, panic
    backoff,         \* ExponentialBackoff: the delay the next wait() returns
    fails,           \* consecutive failed connection attempts (saturates at MaxFails)
    lastWait,        \* the delay being slept while pc = "sleep", else 0
    interrupt,       \* a SIGINT is pending on self.interrupt
    ignore_unknown,  \* CLI.ignore_unknown
    initial_request, \* CLI.initial_request
    has_project,     \* CLI.project.is_some()
    request_queue,   \* run_loop's request_queue
    result,          \* the value run_loop returned
    event,           \* the event the last select! iteration handled
    ret,             \* what handle_mqtt / handle_knx returned for it
    effect,          \* the I/O call the branch issued, and whether it succeeded
    log,             \* the log lines the branch emitted
    timer,           \* ticks elapsed on the sleep of the current select!
    sent,            \* this session's publish and group_write calls, in the order issued
    accepted,        \* this session's events that a translation accepted, in the order handled
    requested,       \* this session's group_request calls, in the order issued
    conn,            \* the bus connection: none, open, closed (terminate() was called)
    sessions,        \* run_loop calls on the latest connection
    teardowns        \* terminate() calls on the latest connection

vars == <<pc, backoff, fails, lastWait, interrupt, ignore_unknown, initial_request,
          has_project, request_queue, result, event, ret, effect, log,
          timer, sent, accepted, requested, conn, sessions, teardowns>>

config == <<ignore_unknown, initial_request, has_project>>

(* ---- helpers ---- *)
MinOf(a, b) == IF a <= b THEN a ELSE b

RECURSIVE Pow2(_)
Pow2(n) == IF n = 0 THEN 1 ELSE 2 * Pow2(n - 1)

Topics == UNION {[1..n -> Chars] : n \in 0..MaxTopicLen}

NoRet == [tag |-> "na"]
NoEffect == [kind |-> "none"]
NoEvent == [kind |-> "none"]

(* ---- external collaborators, by their interface ---- *)

\* <[u8]>::starts_with
starts_with(s, p) == Len(s) >= Len(p) /\ SubSeq(s, 1, Len(p)) = p

\* GroupAddress::from_str: the group, or "err"
GroupAddress_from_str(s) == IF s \in GroupStrings THEN s[1] ELSE "err"

\* GroupAddress's Display
GroupAddress_to_string(g) == <<g>>

\* ProjectExtDPT::group_dpt on Option<&Project>
group_dpt(g) == IF has_project /\ g = "1" THEN "DPT1" ELSE "none"

\* ProjectExtDPT::group_dpt_unit
group_dpt_unit(g) == "none"

\* DataPoint::from_str: the type-agnostic raw parser
DataPoint_from_str(raw) ==
    CASE raw = "r0" -> "dp0"
      [] raw = "r1" -> "dp1"
      [] OTHER -> "err"

\* DataPoint's Display (the canonical string of the payload bytes)
DataPoint_to_string(data) ==
    CASE data = "dp0" -> "r0"
      [] data = "dp1" -> "r1"
      [] OTHER -> "none"

\* generic::try_decode_json(dpt, value)?.to_data_point()
try_decode_json(dpt, value) ==
    CASE value = "vfalse" -> "dp0"
      [] value = "vtrue" -> "dp1"
      [] OTHER -> "err"

\* ProjectExtDPT::group_json
group_json(g, data) ==
    IF group_dpt(g) = "none" THEN "none"
    ELSE CASE data = "dp0" -> "vfalse"
           [] data = "dp1" -> "vtrue"
           [] OTHER -> "none"

\* ExponentialBackoff::wait: returns the current delay and doubles it, capped
ExponentialBackoff_wait(b) == [delay |-> b, next |-> MinOf(2 * b, BackoffMax)]

\* ExponentialBackoff::reset
ExponentialBackoff_reset == BackoffMin

(* ---- the translation layer ---- *)

Ok_None == [tag |-> "None", warn |-> "none"]
Ok_None_warn(w) == [tag |-> "None", warn |-> w]
Ok_Some_gd(g, d) == [tag |-> "Some", group |-> g, data_point |-> d, warn |-> "none"]
Err_ == [tag |-> "Err", warn |-> "none"]
Panic_ == [tag |-> "Panic", warn |-> "none"]

\* a mutant: with both fields set and the type known, the two datapoints are
\* not compared
handle_mqtt_match_no_compare(group, raw, value, dpt) ==
    CASE raw = "none" /\ value # "none" /\ dpt # "none" ->
            LET data_point == try_decode_json(dpt, value)
            IN  IF data_point = "err" THEN Err_ ELSE Ok_Some_gd(group, data_point)
      [] raw # "none" /\ value = "none" ->
            LET data_point == DataPoint_from_str(raw)
            IN  IF data_point = "err" THEN Err_ ELSE Ok_Some_gd(group, data_point)
      [] raw # "none" /\ value # "none" /\ dpt = "none" ->
            Ok_None_warn("both_set_dpt_unknown")
      [] raw # "none" /\ value # "none" /\ dpt # "none" ->
            LET data_point1 == try_decode_json(dpt, value)
                data_point2 == DataPoint_from_str(raw)
            IN  IF data_point1 = "err" THEN Err_
                ELSE IF data_point2 = "err" THEN Err_
                ELSE Ok_Some_gd(group, data_point1)
      [] OTHER -> Ok_None

\* a mutant: raw alone is only parsed when the type is known
handle_mqtt_match_raw_needs_dpt(group, raw, value, dpt) ==
    CASE raw = "none" /\ value # "none" /\ dpt # "none" ->
            LET data_point == try_decode_json(dpt, value)
            IN  IF data_point = "err" THEN Err_ ELSE Ok_Some_gd(group, data_point)
      [] raw # "none" /\ value = "none" /\ dpt # "none" ->
            LET data_point == DataPoint_from_str(raw)
            IN  IF data_point = "err" THEN Err_ ELSE Ok_Some_gd(group, data_point)
      [] raw # "none" /\ value # "none" /\ dpt = "none" ->
            Ok_None_warn("both_set_dpt_unknown")
      [] raw # "none" /\ value # "none" /\ dpt # "none" ->
            LET data_point1 == try_decode_json(dpt, value)
                data_point2 == DataPoint_from_str(raw)
            IN  IF data_point1 = "err" THEN Err_
                ELSE IF data_point2 = "err" THEN Err_
                ELSE IF data_point1 = data_point2 THEN Ok_Some_gd(group, data_point1)
                ELSE Ok_None_warn("both_set_dont_match")
      [] OTHER -> Ok_None

\* the match on (message.raw, message.value, dpt)
handle_mqtt_match(group, raw, value, dpt) ==
    CASE raw = "none" /\ value # "none" /\ dpt # "none" ->
            LET data_point == try_decode_json(dpt, value)
            IN  IF data_point = "err" THEN Err_ ELSE Ok_Some_gd(group, data_point)
      [] raw # "none" /\ value = "none" ->
            LET data_point == DataPoint_from_str(raw)
            IN  IF data_point = "err" THEN Err_ ELSE Ok_Some_gd(group, data_point)
      [] raw # "none" /\ value # "none" /\ dpt = "none" ->
            Ok_None_warn("both_set_dpt_unknown")
      [] raw # "none" /\ value # "none" /\ dpt # "none" ->
            LET data_point1 == try_decode_json(dpt, value)
                data_point2 == DataPoint_from_str(raw)
            IN  IF data_point1 = "err" THEN Err_
                ELSE IF data_point2 = "err" THEN Err_
                ELSE IF data_point1 = data_point2 THEN Ok_Some_gd(group, data_point1)
                ELSE Ok_None_warn("both_set_dont_match")
      [] OTHER -> Ok_None

\* a mutant: ignore_unknown is not consulted
handle_mqtt_no_ignore(publish) ==
    IF starts_with(publish.topic, mqtt_prefix)
    THEN IF Len(mqtt_prefix) + 1 > Len(publish.topic) THEN Panic_
         ELSE LET group == GroupAddress_from_str(
                              SubSeq(publish.topic, Len(mqtt_prefix) + 2, Len(publish.topic)))
              IN  IF group = "err" THEN Err_
                  ELSE IF ~publish.payload.ok THEN Err_
                  ELSE handle_mqtt_match(group, publish.payload.raw,
                                         publish.payload.value, group_dpt(group))
    ELSE Ok_None

\* Mqtt::handle_mqtt.  The topic is sliced from prefix.len() + 1 whatever the
\* byte at prefix.len() is; the slice unwinds when the topic is no longer
\* than the prefix.
handle_mqtt(publish) ==
    IF starts_with(publish.topic, mqtt_prefix)
    THEN IF Len(mqtt_prefix) + 1 > Len(publish.topic) THEN Panic_
         ELSE LET group == GroupAddress_from_str(
                              SubSeq(publish.topic, Len(mqtt_prefix) + 2, Len(publish.topic)))
              IN  IF group = "err" THEN Err_
                  ELSE IF ~publish.payload.ok THEN Err_
                  ELSE LET dpt == group_dpt(group)
                       IN  IF dpt = "none" /\ ignore_unknown THEN Ok_None
                           ELSE handle_mqtt_match(group, publish.payload.raw,
                                                  publish.payload.value, dpt)
    ELSE Ok_None

\* serde_json::to_string of MqttGroupMessageOut: a JSON object as a function
\* from its keys; unit and value are skipped when None, dpt is not
serde_to_string(message) ==
    [k \in {"raw", "dpt"}
           \cup (IF message.unit # "none" THEN {"unit"} ELSE {})
           \cup (IF message.value # "none" THEN {"value"} ELSE {})
       |-> IF message[k] = "none" THEN "null" ELSE message[k]]

\* a mutant: the service of the telegram is not tested
handle_knx_any_service(cemi) ==
    IF cemi.tpdu = "DataGroup" /\ cemi.data # "none" /\ cemi.destination \in {"1", "2"}
    THEN LET group == cemi.destination
             message == [raw |-> DataPoint_to_string(cemi.data),
                         dpt |-> group_dpt(group),
                         unit |-> group_dpt_unit(group),
                         value |-> group_json(group, cemi.data)]
         IN  [tag |-> "Some",
              topic |-> mqtt_prefix \o <<"/">> \o GroupAddress_to_string(group),
              message |-> serde_to_string(message)]
    ELSE [tag |-> "None"]

\* Mqtt::handle_knx
handle_knx(cemi) ==
    IF cemi.tpdu = "DataGroup" /\ cemi.data # "none" /\ cemi.destination \in {"1", "2"}
    THEN LET group == cemi.destination
         IN  IF cemi.service \in {"GroupValueWrite", "GroupValueResponse"}
             THEN LET message == [raw |-> DataPoint_to_string(cemi.data),
                                  dpt |-> group_dpt(group),
                                  unit |-> group_dpt_unit(group),
                                  value |-> group_json(group, cemi.data)]
                  IN  [tag |-> "Some",
                       topic |-> mqtt_prefix \o <<"/">> \o GroupAddress_to_string(group),
                       message |-> serde_to_string(message)]
             ELSE [tag |-> "None"]
    ELSE [tag |-> "None"]

(* ---- inputs ---- *)

Payloads ==
    {[ok |-> FALSE, raw |-> "none", value |-> "none"]}
    \cup [ok : {TRUE}, raw : {"none", "r0", "r1", "rbad"},
          value : {"none", "vfalse", "vtrue", "vbad"}]

\* what mqtt_event_loop.poll() can resolve to
MqttPolls ==
    [kind : {"publish"}, topic : Topics, payload : Payloads, retain : BOOLEAN]
    \cup {[kind |-> "mqtt_other"], [kind |-> "mqtt_error"]}

\* what connection.recv() can resolve to
KnxRecvs ==
    [kind : {"cemi"}, tpdu : {"DataGroup", "Other"},
     service : {"GroupValueWrite", "GroupValueResponse", "GroupValueRead"},
     data : {"none", "dp0", "dp1"}, destination : {"1", "2", "individual"}]
    \cup {[kind |-> "closed"]}

(* ---- the supervisor and the session ---- *)

Init ==
    /\ pc = "connect"
    /\ backoff = BackoffMin
    /\ fails = 0
    /\ lastWait = 0
    /\ interrupt = FALSE
    /\ ignore_unknown \in BOOLEAN
    /\ initial_request \in BOOLEAN
    /\ has_project \in BOOLEAN
    /\ request_queue = <<>>
    /\ result = TRUE
    /\ event = NoEvent
    /\ ret = NoRet
    /\ effect = NoEffect
    /\ log = <<>>
    /\ timer = 0
    /\ sent = <<>>
    /\ accepted = <<>>
    /\ requested = <<>>
    /\ conn = "none"
    /\ sessions = 0
    /\ teardowns = 0

\* the event kind was accepted and the call is issued to its transport; a
\* session issues at most MaxSent such calls
Record(trigger, call) ==
    /\ Len(sent) < MaxSent
    /\ accepted' = Append(accepted, trigger)
    /\ sent' = Append(sent, [kind |-> call, cause |-> Len(accepted) + 1])

\* SIGINT is delivered to the process (the environment)
Signal ==
    /\ pc \notin {"exit", "panic"}
    /\ ~interrupt
    /\ interrupt' = TRUE
    /\ UNCHANGED <<pc, backoff, fails, lastWait, config, request_queue, result,
                   event, ret, effect, log,
                   timer, sent, accepted, requested, conn, sessions, teardowns>>

\* a mutant: the backoff is not reset on a successful connection
Connect_Ok_no_reset ==
    /\ pc = "connect"
    /\ fails' = 0
    /\ pc' = "subscribe"
    /\ conn' = "open"
    /\ sessions' = 0
    /\ teardowns' = 0
    /\ UNCHANGED <<backoff, lastWait, interrupt, config, request_queue, result,
                   event, ret, effect, log,
                   timer, sent, accepted, requested>>

\* run(): connect(..) resolved to Ok
Connect_Ok ==
    /\ pc = "connect"
    /\ backoff' = ExponentialBackoff_reset
    /\ fails' = 0
    /\ pc' = "subscribe"
    /\ conn' = "open"
    /\ sessions' = 0
    /\ teardowns' = 0
    /\ UNCHANGED <<lastWait, interrupt, config, request_queue, result,
                   event, ret, effect, log,
                   timer, sent, accepted, requested>>

\* a mutant: the backoff is reset on every failure as well
Connect_Fail_reset ==
    /\ pc = "connect"
    /\ lastWait' = ExponentialBackoff_wait(ExponentialBackoff_reset).delay
    /\ backoff' = ExponentialBackoff_wait(ExponentialBackoff_reset).next
    /\ fails' = MinOf(fails + 1, MaxFails)
    /\ pc' = "sleep"
    /\ UNCHANGED <<interrupt, config, request_queue, result, event, ret, effect, log,
                   timer, sent, accepted, requested, conn, sessions, teardowns>>

\* run(): connect(..) resolved to Err; sleep(backoff.wait()) starts
Connect_Fail ==
    /\ pc = "connect"
    /\ lastWait' = ExponentialBackoff_wait(backoff).delay
    /\ backoff' = ExponentialBackoff_wait(backoff).next
    /\ fails' = MinOf(fails + 1, MaxFails)
    /\ pc' = "sleep"
    /\ UNCHANGED <<interrupt, config, request_queue, result, event, ret, effect, log,
                   timer, sent, accepted, requested, conn, sessions, teardowns>>

\* run(): the sleep elapsed; continue
Sleep_Elapsed ==
    /\ pc = "sleep"
    /\ lastWait' = 0
    /\ pc' = "connect"
    /\ UNCHANGED <<backoff, fails, interrupt, config, request_queue, result,
                   event, ret, effect, log,
                   timer, sent, accepted, requested, conn, sessions, teardowns>>

\* a mutant: the queue outlives the session and is refilled only when empty
RunLoop_Start_keep_queue ==
    /\ pc = "subscribe"
    /\ \E subscribed \in BOOLEAN :
          /\ effect' = [kind |-> "subscribe", ok |-> subscribed]
          /\ IF subscribed
             THEN /\ pc' = "session"
                  /\ request_queue' = IF request_queue # <<>> THEN request_queue
                                      ELSE IF initial_request /\ has_project
                                      THEN ProjectGroups ELSE <<>>
             ELSE /\ pc' = "panic"
                  /\ request_queue' = <<>>
    /\ event' = NoEvent
    /\ ret' = NoRet
    /\ log' = <<>>
    /\ sessions' = sessions + 1
    /\ timer' = 0
    /\ sent' = <<>>
    /\ accepted' = <<>>
    /\ requested' = <<>>
    /\ UNCHANGED <<backoff, fails, lastWait, interrupt, config, result,
                   conn, teardowns>>

\* run_loop() up to the loop: subscribe_many(..).await.unwrap(), then the queue
RunLoop_Start ==
    /\ pc = "subscribe"
    /\ \E subscribed \in BOOLEAN :
          /\ effect' = [kind |-> "subscribe", ok |-> subscribed]
          /\ IF subscribed
             THEN /\ pc' = "session"
                  /\ request_queue' = IF initial_request /\ has_project
                                      THEN ProjectGroups ELSE <<>>
             ELSE /\ pc' = "panic"
                  /\ request_queue' = <<>>
    /\ event' = NoEvent
    /\ ret' = NoRet
    /\ log' = <<>>
    /\ sessions' = sessions + 1
    /\ timer' = 0
    /\ sent' = <<>>
    /\ accepted' = <<>>
    /\ requested' = <<>>
    /\ UNCHANGED <<backoff, fails, lastWait, interrupt, config, result,
                   conn, teardowns>>

\* a mutant: the interrupt is honoured while a branch is still in progress
Branch_Interrupt_preempt ==
    /\ pc \in {"session", "iterated"}
    /\ interrupt
    /\ interrupt' = FALSE
    /\ event' = [kind |-> "interrupt"]
    /\ ret' = NoRet
    /\ \E disconnected \in BOOLEAN :
          effect' = [kind |-> "disconnect", ok |-> disconnected]
    /\ log' = <<"debug: interrupt signal, terminating">>
    /\ result' = FALSE
    /\ pc' = "terminate"
    /\ timer' = 0
    /\ UNCHANGED <<backoff, fails, lastWait, config, request_queue,
                   sent, accepted, requested, conn, sessions, teardowns>>

\* run_loop(): the interrupt branch of select!
Branch_Interrupt ==
    /\ pc = "session"
    /\ interrupt
    /\ interrupt' = FALSE
    /\ event' = [kind |-> "interrupt"]
    /\ ret' = NoRet
    /\ \E disconnected \in BOOLEAN :
          effect' = [kind |-> "disconnect", ok |-> disconnected]
    /\ log' = <<"debug: interrupt signal, terminating">>
    /\ result' = FALSE
    /\ pc' = "terminate"
    /\ timer' = 0
    /\ UNCHANGED <<backoff, fails, lastWait, config, request_queue,
                   sent, accepted, requested, conn, sessions, teardowns>>

\* a mutant: retained publishes are handled like the others
Branch_Mqtt_retained ==
    /\ pc = "session"
    /\ \E poll \in MqttPolls :
          /\ event' = poll
          /\ IF poll.kind = "publish"
             THEN LET r == handle_mqtt(poll)
                      w == IF r.warn = "none" THEN <<>> ELSE <<"warn: " \o r.warn>>
                  IN  /\ ret' = r
                      /\ CASE r.tag = "Some" ->
                                \E written \in BOOLEAN :
                                   /\ effect' = [kind |-> "group_write", group |-> r.group,
                                                 data_point |-> r.data_point, ok |-> written]
                                   /\ log' = IF written
                                             THEN <<"debug: knx group write">>
                                             ELSE <<"debug: knx group write",
                                                    "error: cannot write to group">>
                                   /\ Record("publish", "group_write")
                                   /\ pc' = "iterated"
                           [] r.tag = "None" ->
                                /\ effect' = NoEffect
                                /\ log' = w
                                /\ UNCHANGED <<sent, accepted>>
                                /\ pc' = "iterated"
                           [] r.tag = "Err" ->
                                /\ effect' = NoEffect
                                /\ log' = <<"warn: cannot handle incoming mqtt message">>
                                /\ UNCHANGED <<sent, accepted>>
                                /\ pc' = "iterated"
                           [] r.tag = "Panic" ->
                                /\ effect' = NoEffect
                                /\ log' = <<>>
                                /\ UNCHANGED <<sent, accepted>>
                                /\ pc' = "panic"
             ELSE /\ ret' = NoRet
                  /\ effect' = NoEffect
                  /\ log' = IF poll.kind = "mqtt_error" THEN <<"warn: mqtt error">> ELSE <<>>
                  /\ UNCHANGED <<sent, accepted>>
                  /\ pc' = "iterated"
    /\ timer' = 0
    /\ UNCHANGED <<backoff, fails, lastWait, interrupt, config, request_queue, result,
                   requested, conn, sessions, teardowns>>

\* run_loop(): the mqtt_event_loop.poll() branch of select!
Branch_Mqtt ==
    /\ pc = "session"
    /\ \E poll \in MqttPolls :
          /\ event' = poll
          /\ IF poll.kind = "publish" /\ ~poll.retain
             THEN LET r == handle_mqtt(poll)
                      w == IF r.warn = "none" THEN <<>> ELSE <<"warn: " \o r.warn>>
                  IN  /\ ret' = r
                      /\ CASE r.tag = "Some" ->
                                \E written \in BOOLEAN :
                                   /\ effect' = [kind |-> "group_write", group |-> r.group,
                                                 data_point |-> r.data_point, ok |-> written]
                                   /\ log' = IF written
                                             THEN <<"debug: knx group write">>
                                             ELSE <<"debug: knx group write",
                                                    "error: cannot write to group">>
                                   /\ Record("publish", "group_write")
                                   /\ pc' = "iterated"
                           [] r.tag = "None" ->
                                /\ effect' = NoEffect
                                /\ log' = w
                                /\ UNCHANGED <<sent, accepted>>
                                /\ pc' = "iterated"
                           [] r.tag = "Err" ->
                                /\ effect' = NoEffect
                                /\ log' = <<"warn: cannot handle incoming mqtt message">>
                                /\ UNCHANGED <<sent, accepted>>
                                /\ pc' = "iterated"
                           [] r.tag = "Panic" ->
                                /\ effect' = NoEffect
                                /\ log' = <<>>
                                /\ UNCHANGED <<sent, accepted>>
                                /\ pc' = "panic"
             ELSE /\ ret' = NoRet
                  /\ effect' = NoEffect
                  /\ log' = IF poll.kind = "mqtt_error" THEN <<"warn: mqtt error">> ELSE <<>>
                  /\ UNCHANGED <<sent, accepted>>
                  /\ pc' = "iterated"
    /\ timer' = 0
    /\ UNCHANGED <<backoff, fails, lastWait, interrupt, config, request_queue, result,
                   requested, conn, sessions, teardowns>>

\* time passes while select! waits on a sleep of CLI.initial_request_delay
Tick ==
    /\ pc = "session"
    /\ request_queue # <<>>
    /\ timer < InitialRequestDelay
    /\ timer' = timer + 1
    /\ UNCHANGED <<pc, backoff, fails, lastWait, interrupt, config, request_queue, result,
                   event, ret, effect, log, sent, accepted, requested, conn, sessions,
                   teardowns>>

\* a mutant: the queue is popped from the back
Branch_Timer_pop_back ==
    /\ pc = "session"
    /\ request_queue # <<>>
    /\ timer = InitialRequestDelay
    /\ event' = [kind |-> "timer"]
    /\ ret' = NoRet
    /\ \E request_ok \in BOOLEAN :
          effect' = [kind |-> "group_request", group |-> request_queue[Len(request_queue)],
                     ok |-> request_ok]
    /\ request_queue' = SubSeq(request_queue, 1, Len(request_queue) - 1)
    /\ log' = <<>>
    /\ pc' = "iterated"
    /\ timer' = 0
    /\ requested' = Append(requested, request_queue[Len(request_queue)])
    /\ UNCHANGED <<backoff, fails, lastWait, interrupt, config, result,
                   sent, accepted, conn, sessions, teardowns>>

\* run_loop(): the sleep branch of select!; the sleep is Duration::MAX while
\* the queue is empty
Branch_Timer ==
    /\ pc = "session"
    /\ request_queue # <<>>
    /\ timer = InitialRequestDelay
    /\ event' = [kind |-> "timer"]
    /\ ret' = NoRet
    /\ \E request_ok \in BOOLEAN :
          effect' = [kind |-> "group_request", group |-> Head(request_queue),
                     ok |-> request_ok]
    /\ request_queue' = Tail(request_queue)
    /\ log' = <<>>
    /\ pc' = "iterated"
    /\ timer' = 0
    /\ requested' = Append(requested, Head(request_queue))
    /\ UNCHANGED <<backoff, fails, lastWait, interrupt, config, result,
                   sent, accepted, conn, sessions, teardowns>>

\* a mutant: the publish does not set the retained flag
Branch_Knx_not_retained ==
    /\ pc = "session"
    /\ \E recv \in KnxRecvs :
          /\ event' = recv
          /\ IF recv.kind = "cemi"
             THEN LET r == handle_knx(recv)
                  IN  /\ ret' = r
                      /\ result' = result
                      /\ IF r.tag = "Some"
                         THEN \E published \in BOOLEAN :
                                 /\ effect' = [kind |-> "publish", topic |-> r.topic,
                                               qos |-> "AtLeastOnce", retain |-> FALSE,
                                               payload |-> r.message, ok |-> published]
                                 /\ log' = <<"debug: mqtt message">>
                                 /\ Record("cemi", "publish")
                                 /\ pc' = IF published THEN "iterated" ELSE "panic"
                         ELSE /\ effect' = NoEffect
                              /\ log' = <<>>
                              /\ UNCHANGED <<sent, accepted>>
                              /\ pc' = "iterated"
             ELSE /\ ret' = NoRet
                  /\ effect' = NoEffect
                  /\ log' = <<"debug: bus connection closed">>
                  /\ UNCHANGED <<sent, accepted>>
                  /\ result' = TRUE
                  /\ pc' = "terminate"
    /\ timer' = 0
    /\ UNCHANGED <<backoff, fails, lastWait, interrupt, config, request_queue,
                   requested, conn, sessions, teardowns>>

\* run_loop(): the connection.recv() branch of select!
Branch_Knx ==
    /\ pc = "session"
    /\ \E recv \in KnxRecvs :
          /\ event' = recv
          /\ IF recv.kind = "cemi"
             THEN LET r == handle_knx(recv)
                  IN  /\ ret' = r
                      /\ result' = result
                      /\ IF r.tag = "Some"
                         THEN \E published \in BOOLEAN :
                                 /\ effect' = [kind |-> "publish", topic |-> r.topic,
                                               qos |-> "AtLeastOnce", retain |-> TRUE,
                                               payload |-> r.message, ok |-> published]
                                 /\ log' = <<"debug: mqtt message">>
                                 /\ Record("cemi", "publish")
                                 /\ pc' = IF published THEN "iterated" ELSE "panic"
                         ELSE /\ effect' = NoEffect
                              /\ log' = <<>>
                              /\ UNCHANGED <<sent, accepted>>
                              /\ pc' = "iterated"
             ELSE /\ ret' = NoRet
                  /\ effect' = NoEffect
                  /\ log' = <<"debug: bus connection closed">>
                  /\ UNCHANGED <<sent, accepted>>
                  /\ result' = TRUE
                  /\ pc' = "terminate"
    /\ timer' = 0
    /\ UNCHANGED <<backoff, fails, lastWait, interrupt, config, request_queue,
                   requested, conn, sessions, teardowns>>

\* run_loop(): the select! body finished without a break; the loop goes round
Loop ==
    /\ pc = "iterated"
    /\ pc' = "session"
    /\ event' = NoEvent
    /\ ret' = NoRet
    /\ effect' = NoEffect
    /\ log' = <<>>
    /\ timer' = 0
    /\ UNCHANGED <<backoff, fails, lastWait, interrupt, config, request_queue, result,
                   sent, accepted, requested, conn, sessions, teardowns>>

\* a mutant: the test of run_loop's result is inverted
Terminate_inverted ==
    /\ pc = "terminate"
    /\ pc' = IF result THEN "exit" ELSE "connect"
    /\ conn' = "closed"
    /\ teardowns' = teardowns + 1
    /\ UNCHANGED <<backoff, fails, lastWait, interrupt, config, request_queue, result,
                   event, ret, effect, log,
                   timer, sent, accepted, requested, sessions>>

\* a mutant: on shutdown run() breaks before connection.terminate()
Terminate_skip_on_shutdown ==
    /\ pc = "terminate"
    /\ pc' = IF ~result THEN "exit" ELSE "connect"
    /\ conn' = IF ~result THEN conn ELSE "closed"
    /\ teardowns' = IF ~result THEN teardowns ELSE teardowns + 1
    /\ UNCHANGED <<backoff, fails, lastWait, interrupt, config, request_queue, result,
                   event, ret, effect, log,
                   timer, sent, accepted, requested, sessions>>

\* run(): connection.terminate().await, then break Ok(()) unless result
Terminate ==
    /\ pc = "terminate"
    /\ pc' = IF ~result THEN "exit" ELSE "connect"
    /\ conn' = "closed"
    /\ teardowns' = teardowns + 1
    /\ UNCHANGED <<backoff, fails, lastWait, interrupt, config, request_queue, result,
                   event, ret, effect, log,
                   timer, sent, accepted, requested, sessions>>

Next ==
    \/ Signal
    \/ Connect_Ok
    \/ Connect_Fail
    \/ Sleep_Elapsed
    \/ RunLoop_Start
    \/ Branch_Interrupt
    \/ Branch_Mqtt
    \/ Tick
    \/ Branch_Timer
    \/ Branch_Knx
    \/ Loop
    \/ Terminate

Spec == Init /\ [][Next]_vars

\* select! picks among the ready branches at random, so a branch that is ready
\* again and again is eventually taken; every await of run() resolves
FairSpec ==
    /\ Spec
    /\ SF_vars(Branch_Interrupt)
    /\ SF_vars(Branch_Timer)
    /\ SF_vars(Tick)
    /\ WF_vars(Connect_Ok \/ Connect_Fail)
    /\ WF_vars(Sleep_Elapsed)
    /\ WF_vars(RunLoop_Start)
    /\ WF_vars(Loop)
    /\ WF_vars(Terminate)

TypeOK ==
    /\ pc \in {"connect", "sleep", "subscribe", "session", "iterated", "terminate", "exit", "panic"}
    /\ backoff \in BackoffMin..BackoffMax
    /\ fails \in 0..MaxFails
    /\ lastWait \in 0..BackoffMax
    /\ interrupt \in BOOLEAN
    /\ result \in BOOLEAN
    /\ Len(request_queue) <= Len(ProjectGroups)
    /\ timer \in 0..InitialRequestDelay
    /\ Len(sent) <= MaxSent
    /\ Len(accepted) = Len(sent)
    /\ conn \in {"none", "open", "closed"}

(* ---- properties ---- *)

\* the last iteration handled a non-retained inbound publish
Inbound == event.kind = "publish" /\ ~event.retain

\* the topic is the prefix, then "/", then a group address
WellFormedTopic(topic) == \E g \in GroupStrings : topic = mqtt_prefix \o <<"/">> \o g

\* the part of the topic after the prefix and one more byte
Remainder(topic) == SubSeq(topic, Len(mqtt_prefix) + 2, Len(topic))

\* the payload was deserialized into a message for a group
Deserialized ==
    /\ Inbound
    /\ starts_with(event.topic, mqtt_prefix)
    /\ Len(event.topic) > Len(mqtt_prefix)
    /\ Remainder(event.topic) \in GroupStrings
    /\ event.payload.ok

Failed ==
    \/ effect.kind \in {"group_write", "group_request", "publish"} /\ ~effect.ok
    \/ event.kind = "mqtt_error"
    \/ Inbound /\ ret.tag \in {"Err", "Panic"}

\* C1: after a failed bus write, a failed bus read-request, a failed broker
\* publish, a broker poll error or a malformed inbound message, the session
\* loop is still running.
C1_FailureKeepsSession == Failed => pc = "iterated"

\* C2: run() returns only from the teardown of a session that the interrupt
\* branch ended, and nothing follows the return; the teardown of a session
\* that ended by bus closure leads to a connection attempt, a connection
\* attempt leads to a session or to the backoff sleep, and the sleep leads to
\* a connection attempt.
C2_RunReturnsOnlyOnShutdown ==
    [][/\ (pc' = "exit" /\ pc # "exit" => pc = "terminate" /\ event.kind = "interrupt")
       /\ (pc = "exit" => pc' = "exit")
       /\ (pc = "terminate" /\ event.kind = "interrupt" => pc' \in {"terminate", "exit"})
       /\ (pc = "terminate" /\ event.kind = "closed" => pc' \in {"terminate", "connect"})
       /\ (pc = "connect" => pc' \in {"connect", "subscribe", "sleep"})
       /\ (pc = "sleep" => pc' \in {"sleep", "connect"})]_vars

C2_Witness == pc = "exit" /\ event.kind = "interrupt" /\ ~result

\* C3: once a shutdown is requested, run() eventually returns.
C3_ShutdownEventuallyExits == interrupt ~> (pc = "exit")

\* C4: the wait after the k-th consecutive failed connection attempt is
\* min(1 * 2^(k-1), 60); from the MaxFails-th failure on the count saturates
\* and the wait is the maximum.
C4_BackoffDelay ==
    pc = "sleep" =>
        /\ fails >= 1
        /\ lastWait = (IF fails < MaxFails THEN MinOf(1 * Pow2(fails - 1), 60) ELSE 60)
        /\ lastWait <= 60

C4_Witness == pc = "sleep" /\ fails = 7 /\ lastWait = 60

\* C5: from a successful connection to the end of its session the backoff is
\* at its minimum; the first failed attempt after a success waits the
\* minimum; the teardown of a session that ended by bus closure goes to the
\* next connection attempt with no wait.
C5_ResetOnSuccess ==
    /\ [](pc \in {"subscribe", "session", "iterated", "terminate"} => backoff = 1)
    /\ [](pc = "sleep" /\ fails = 1 => lastWait = 1)
    /\ [][pc = "terminate" /\ result => pc' \in {"terminate", "connect"} /\ lastWait' = 0]_vars

C5_Witness == pc = "sleep" /\ fails = 1 /\ event.kind = "closed" /\ lastWait = 1

C7_UnknownTypeReported ==
    (/\ Deserialized
     /\ event.payload.raw = "none"
     /\ event.payload.value # "none"
     /\ group_dpt(Remainder(event.topic)[1]) = "none"
     /\ ~ignore_unknown)
    => ret.tag # "Some" /\ (ret.tag = "Err" \/ log # <<>>)

\* C8: an inbound message on a topic that is not prefix, "/", group address
\* yields no result and no bus write.
C8_OnlyWellFormedTopics ==
    Inbound /\ ~WellFormedTopic(event.topic) =>
        ret.tag # "Some" /\ effect.kind # "group_write"

\* C9: an inbound message whose topic starts with the prefix and whose
\* remainder is no group address (the bare prefix included) fails with an
\* error: it is logged, nothing is written, and the session keeps running.
C9_BadRemainderIsError ==
    (/\ Inbound
     /\ starts_with(event.topic, mqtt_prefix)
     /\ (Len(event.topic) <= Len(mqtt_prefix) \/ Remainder(event.topic) \notin GroupStrings))
    => /\ ret.tag = "Err"
       /\ log = <<"warn: cannot handle incoming mqtt message">>
       /\ effect.kind = "none"
       /\ pc = "iterated"

C11_ResolutionTable ==
    LET g == Remainder(event.topic)[1]
        dpt == group_dpt(g)
        raw == event.payload.raw
        value == event.payload.value
        d == IF raw = "none" THEN try_decode_json(dpt, value) ELSE DataPoint_from_str(raw)
    IN  (Deserialized /\ ~(dpt = "none" /\ ignore_unknown) /\ (raw = "none" \/ value = "none"))
        => /\ (raw = "none" /\ value = "none") => ret.tag = "None" /\ effect.kind = "none"
           /\ ((raw = "none" /\ value # "none" /\ dpt # "none") \/ raw # "none") =>
                 IF d = "err"
                 THEN ret.tag = "Err" /\ effect.kind = "none"
                 ELSE /\ ret.tag = "Some"
                      /\ ret.group = g
                      /\ ret.data_point = d
                      /\ effect.kind = "group_write"
                      /\ effect.data_point = d

C11_Witness ==
    /\ Deserialized
    /\ ~ignore_unknown
    /\ group_dpt(Remainder(event.topic)[1]) = "none"
    /\ event.payload.raw = "r1"
    /\ event.payload.value = "none"
    /\ ret.tag = "Some"
    /\ ret.data_point = "dp1"

\* C12: handle_knx returns a result iff the telegram is a group-data
\* telegram whose service is value-write or value-response, whose destination
\* is a group address and which carries payload bytes; the topic is then
\* prefix "/" group and the payload's raw field is the string form of the
\* bytes.
C12_OutboundAccepts ==
    event.kind = "cemi" =>
        LET accept == /\ event.tpdu = "DataGroup"
                      /\ event.service \in {"GroupValueWrite", "GroupValueResponse"}
                      /\ event.destination # "individual"
                      /\ event.data # "none"
        IN  /\ ret.tag = "Some" <=> accept
            /\ ~accept => ret.tag = "None" /\ effect.kind = "none"
            /\ accept => /\ ret.topic = <<"p", "/", event.destination>>
                         /\ ret.message["raw"] = (IF event.data = "dp0" THEN "r0" ELSE "r1")

C12_Witness ==
    /\ event.kind = "cemi"
    /\ event.service = "GroupValueResponse"
    /\ ret.tag = "Some"
    /\ ret.topic = <<"p", "/", "2">>

\* C13: in every payload handle_knx produces raw is present, the key dpt is
\* present iff the type of the destination group is known, unit iff a unit is
\* defined, and value only when it was decoded.
C13_OptionalKeys ==
    event.kind = "cemi" /\ ret.tag = "Some" =>
        /\ "raw" \in DOMAIN ret.message
        /\ "dpt" \in DOMAIN ret.message <=> group_dpt(event.destination) # "none"
        /\ "unit" \in DOMAIN ret.message <=> group_dpt_unit(event.destination) # "none"
        /\ "value" \in DOMAIN ret.message <=> group_json(event.destination, event.data) # "none"
        /\ \A k \in DOMAIN ret.message : ret.message[k] # "null"

\* the addresses of the project in the order it enumerates them, when startup
\* polling is enabled and a project is configured
Enumerated == IF initial_request /\ has_project THEN <<"1", "2">> ELSE <<>>

\* C14: a bus write is issued exactly for a non-retained inbound publish for
\* which handle_mqtt returned a result, with that group and datapoint, and it
\* is the one call that iteration adds to the session's calls; no other event
\* causes a write.
C14_WriteOnlyForResult ==
    /\ effect.kind = "group_write" <=>
          (event.kind = "publish" /\ ~event.retain /\ ret.tag = "Some")
    /\ effect.kind = "group_write" =>
          /\ effect.group = ret.group
          /\ effect.data_point = ret.data_point
          /\ sent # <<>>
          /\ sent[Len(sent)] = [kind |-> "group_write", cause |-> Len(accepted)]
          /\ accepted[Len(accepted)] = "publish"
    /\ Cardinality({i \in 1..Len(sent) : sent[i].kind = "group_write"})
          = Cardinality({i \in 1..Len(accepted) : accepted[i] = "publish"})

C14_Witness ==
    /\ event.kind = "publish"
    /\ ~event.retain
    /\ effect.kind = "group_write"
    /\ Len(sent) = 2
    /\ sent[1].kind = "group_write"

\* C15: a broker publish is issued exactly for a telegram handle_knx
\* accepted, with its topic and payload, at-least-once quality and the
\* retained flag; the i-th call of a session (publish or bus write) is the
\* one caused by the i-th accepted event.
C15_PublishPerTelegramInOrder ==
    /\ effect.kind = "publish" <=> (event.kind = "cemi" /\ ret.tag = "Some")
    /\ effect.kind = "publish" =>
          /\ effect.qos = "AtLeastOnce"
          /\ effect.retain
          /\ effect.topic = ret.topic
          /\ effect.payload = ret.message
          /\ sent # <<>>
          /\ sent[Len(sent)] = [kind |-> "publish", cause |-> Len(accepted)]
    /\ Len(sent) = Len(accepted)
    /\ \A i \in 1..Len(sent) :
          /\ sent[i].cause = i
          /\ sent[i].kind = (IF accepted[i] = "cemi" THEN "publish" ELSE "group_write")

C15_Witness ==
    /\ effect.kind = "publish"
    /\ effect.ok
    /\ Len(sent) = 2
    /\ sent[1].kind = "group_write"
    /\ sent[2].kind = "publish"

\* C16: the read-requests of a session followed by what is left in the queue
\* are the project's addresses in enumeration order; a pacing tick issues one
\* request, for the address that was at the front, and never fires on an
\* empty queue.
C16_RequestsInOrder ==
    /\ pc \in {"session", "iterated", "terminate"} => requested \o request_queue = Enumerated
    /\ event.kind = "timer" =>
          /\ effect.kind = "group_request"
          /\ requested # <<>>
          /\ effect.group = requested[Len(requested)]
    /\ effect.kind = "group_request" => event.kind = "timer"

C16_Witness ==
    /\ event.kind = "timer"
    /\ requested = <<"1", "2">>
    /\ request_queue = <<>>
    /\ effect.group = "2"

\* C17: while the queue is non-empty and the session runs, the queue is
\* eventually drained or the session ends.
C17_QueueEventuallyDrained ==
    (pc = "session" /\ request_queue # <<>>)
        ~> (request_queue = <<>> \/ pc \notin {"session", "iterated"})

\* C18: the queue is filled when a session starts, with the project's
\* addresses or with nothing, whatever an earlier session left in it; after
\* that only the pacing branch changes it, by removing one entry.
C18_QueueFilledOncePerSession ==
    [][/\ (pc = "subscribe" /\ pc' = "session" => request_queue' = Enumerated)
       /\ (pc # "subscribe" /\ request_queue' # request_queue =>
              /\ pc = "session"
              /\ event'.kind = "timer"
              /\ Len(request_queue') = Len(request_queue) - 1)]_vars

C18_Witness == pc = "subscribe" /\ Len(request_queue) = 1 /\ event.kind = "closed"

\* the calls a session has issued
Calls == Len(sent) + Len(requested)

\* C19: one step of the loop handles one event and issues at most one call
\* (a bus write, a read-request, a publish or the disconnect); calls are only
\* issued by a branch entered from select!, and from the end of a branch the
\* loop only goes back to select!, so a pending interrupt is consumed only
\* there.
C19_OneEventOneEffect ==
    [][/\ (pc = "session" /\ pc' # "session" =>
              /\ event'.kind # "none"
              /\ Calls' - Calls + (IF effect'.kind = "disconnect" THEN 1 ELSE 0)
                    = (IF effect'.kind \in {"group_write", "group_request",
                                            "publish", "disconnect"} THEN 1 ELSE 0))
       /\ (pc \in {"iterated", "terminate"} => Calls' = Calls)
       /\ (pc = "iterated" => pc' \in {"iterated", "session"})
       /\ (interrupt /\ ~interrupt' => pc = "session" /\ event.kind = "none")]_vars

C19_Witness == pc = "iterated" /\ interrupt /\ effect.kind = "group_write" /\ ~effect.ok

====
